---- MODULE Spec2Model ----
(***************************************************************************)
(* Model of flask_app.py: the refresh-on-read cache of get_live_bus_data,  *)
(* the two feed parsers, the left merge and the derived columns, and the   *)
(* filter chain and movement segments of the index handler.                *)
(*                                                                         *)
(* Conventions.  A DataFrame is the sequence of its rows (records); the    *)
(* empty DataFrame is << >>.  An optional value (Python None, a NaN cell)  *)
(* is << >> and a present one is <<x>>.  A Python string that the code     *)
(* only compares is a TLA+ string; route_id, which the code splits, is the *)
(* sequence of its characters.  Latitudes and longitudes are in hundredths *)
(* of a degree, times in seconds.  The columns stop_id, current_status and *)
(* timestamp are copied into the snapshot and never read again; the model  *)
(* carries stop_sequence as the representative of those columns.           *)
(***************************************************************************)
EXTENDS Integers, Sequences, FiniteSets, TLC

VARIABLES CACHE, clock, wire, ret, refreshes, page, probe, probed, pc, frame

vars == <<CACHE, clock, wire, ret, refreshes, page, probe, probed, pc, frame>>

None == << >>

Some(x) == <<x>>

REFRESH_INTERVAL_SECONDS == 60

\* ---------------------------------------------------------------- bounds

\* The wall clock stops advancing after MaxClock seconds.
MaxClock == 120

\* Delay probes range over -MaxDelay .. MaxDelay.
MaxDelay == 302

\* Latitude probes range over -LatSouth .. -LatNorth (hundredths of a degree).
LatSouth == 2822

LatNorth == 2628

\* Each of the two concurrent request threads makes at most MaxCalls calls.
MaxCalls == 2

\* ------------------------------------------------------- character strings

Route700 == <<"7", "0", "0">>

RouteAll == <<"A", "l", "l">>

\* str.split(sep)[0]: the characters before the first separator.
RECURSIVE SplitFirst(_, _)
SplitFirst(s, sep) ==
    IF s = << >> THEN << >>
    ELSE IF Head(s) = sep THEN << >>
    ELSE <<Head(s)>> \o SplitFirst(Tail(s), sep)

\* ------------------------------------------------------------ the two feeds

VehicleEntity(trip, route, label, lat, lon, seq) ==
    [kind |-> "vehicle", trip_id |-> trip, route_id |-> route, label |-> label,
     latitude |-> lat, longitude |-> lon, current_stop_sequence |-> seq]

TripUpdateEntity(trip, delays) ==
    [kind |-> "trip_update", trip_id |-> trip, stop_time_update |-> delays]

AlertEntity == [kind |-> "alert"]

\* What requests.get yields for one URL: a transport error or non-2xx status,
\* an empty body, bytes that are no FeedMessage, or an encoded FeedMessage.
HttpError == [kind |-> "error"]

EmptyBody == [kind |-> "empty"]

Malformed == [kind |-> "malformed"]

Feed(entities) == [kind |-> "feed", entity |-> entities]

NotRequested == [kind |-> "not_requested"]

BusA1 == VehicleEntity("t1", <<"7", "0", "0", "-", "1">>, "A", -2800, 15340, 4)

BusA2 == VehicleEntity("t1", <<"7", "0", "0", "-", "1">>, "A", -2801, 15341, 5)

BusB == VehicleEntity("t2", <<"6", "6", "-", "2">>, "B", -2750, 15300, 9)

VehicleResponses ==
    { HttpError, EmptyBody, Malformed,
      Feed(<<AlertEntity>>),
      Feed(<<BusA1, AlertEntity, BusB>>),
      Feed(<<BusA2, BusB>>) }

TripResponses ==
    { HttpError, Malformed,
      Feed(<<TripUpdateEntity("t9", << >>)>>),
      Feed(<<TripUpdateEntity("t1", <<300, -200>>), AlertEntity>>),
      Feed(<<TripUpdateEntity("t1", <<-61>>), TripUpdateEntity("t1", <<301>>)>>) }

\* -------------------------------------------------------- fetch and parse

\* fetch_gtfs_rt: the body on success, None on a RequestException.
fetch_gtfs_rt(response) ==
    IF response.kind = "error" THEN [kind |-> "None"] ELSE response

\* Python truthiness of bytes | None: None and b"" are falsy.
Falsy(content) == content.kind \in {"None", "empty"}

\* FeedMessage.ParseFromString raises DecodeError on bytes that are no message.
Decodes(content) == content.kind = "feed"

parse_vehicle_positions(content) ==
    LET vs == SelectSeq(content.entity, LAMBDA e : e.kind = "vehicle")
    IN  [i \in 1..Len(vs) |->
            [trip_id |-> vs[i].trip_id, route_id |-> vs[i].route_id,
             vehicle_id |-> vs[i].label, lat |-> vs[i].latitude,
             lon |-> vs[i].longitude,
             stop_sequence |-> vs[i].current_stop_sequence]]

\* Variant of Classify with the upper comparison made inclusive.
ClassifyOffByOne(delay) ==
    IF delay >= 300 THEN "Delayed"
    ELSE IF delay < -60 THEN "Early" ELSE "On Time"

\* Line 64: the status derived from a delay.
Classify(delay) ==
    IF delay > 300 THEN "Delayed"
    ELSE IF delay < -60 THEN "Early" ELSE "On Time"

HasStopTimeUpdate(e) ==
    IF e.kind = "trip_update" THEN e.stop_time_update # << >> ELSE FALSE

parse_trip_updates(content) ==
    LET tus == SelectSeq(content.entity, HasStopTimeUpdate)
    IN  [i \in 1..Len(tus) |->
            [trip_id |-> tus[i].trip_id,
             delay |-> tus[i].stop_time_update[1],
             status |-> Classify(tus[i].stop_time_update[1])]]

\* The rows a response decodes to (none when it does not decode).
DecodedVehicles(response) ==
    IF Decodes(response) THEN parse_vehicle_positions(response) ELSE << >>

DecodedUpdates(response) ==
    IF Decodes(response) THEN parse_trip_updates(response) ELSE << >>

\* ----------------------------------------------------- merge and derivation

\* The rows DataFrame.merge(how="left") makes of one left row: one per
\* matching right row, in the right frame's order, or one with missing cells.
LeftRows(v, updates_df) ==
    LET m == SelectSeq(updates_df, LAMBDA u : u.trip_id = v.trip_id)
    IN  IF m = << >>
        THEN << [v |-> v, delay |-> None, status |-> None] >>
        ELSE [j \in 1..Len(m) |->
                [v |-> v, delay |-> Some(m[j].delay), status |-> Some(m[j].status)]]

RECURSIVE merge(_, _)
merge(vehicles_df, updates_df) ==
    IF vehicles_df = << >> THEN << >>
    ELSE LeftRows(Head(vehicles_df), updates_df) \o merge(Tail(vehicles_df), updates_df)

\* Lines 91-92: Series.fillna(value, inplace=True) on a column of live_data,
\* which writes through to the frame in the pandas the code is written for.
fillna(cell, value) == IF cell = None THEN value ELSE cell[1]

\* Variant of categorize_region with two closed ends made open.
categorize_region_strict(lat) ==
    IF -2775 < lat /\ lat <= -2700 THEN "Brisbane"
    ELSE IF -2820 <= lat /\ lat < -2778 THEN "Gold Coast"
    ELSE IF -2690 <= lat /\ lat <= -2630 THEN "Sunshine Coast"
    ELSE "Other"

\* Lines 95-99, in hundredths of a degree.
categorize_region(lat) ==
    IF -2775 <= lat /\ lat <= -2700 THEN "Brisbane"
    ELSE IF -2820 <= lat /\ lat <= -2778 THEN "Gold Coast"
    ELSE IF -2690 <= lat /\ lat <= -2630 THEN "Sunshine Coast"
    ELSE "Other"

\* Lines 90-100: the merged snapshot of two non-empty decoded frames.
LiveData(vehicles_df, updates_df) ==
    LET joined == merge(vehicles_df, updates_df)
    IN  [i \in 1..Len(joined) |->
            [trip_id |-> joined[i].v.trip_id,
             route_id |-> joined[i].v.route_id,
             vehicle_id |-> joined[i].v.vehicle_id,
             lat |-> joined[i].v.lat,
             lon |-> joined[i].v.lon,
             stop_sequence |-> joined[i].v.stop_sequence,
             delay |-> fillna(joined[i].delay, 0),
             status |-> fillna(joined[i].status, "On Time"),
             route_name |-> SplitFirst(joined[i].v.route_id, "-"),
             region |-> categorize_region(joined[i].v.lat)]]

\* ------------------------------------------------------------- the cache

\* Lines 25-29.
EmptyCache == [data |-> << >>, last_refreshed |-> None, previous_data |-> << >>]

\* Variant of IsFresh with the age comparison made inclusive.
IsFreshInclusive(cache, now) ==
    /\ cache.last_refreshed # None
    /\ now - cache.last_refreshed[1] <= REFRESH_INTERVAL_SECONDS

\* Line 73: a refresh has happened and is less than the interval old.
IsFresh(cache, now) ==
    /\ cache.last_refreshed # None
    /\ now - cache.last_refreshed[1] < REFRESH_INTERVAL_SECONDS

\* Lines 82 and 88: CACHE.get("last_refreshed") or now.
LastRefreshedOr(cache, now) ==
    IF cache.last_refreshed # None THEN cache.last_refreshed ELSE Some(now)

\* Variant of UpdateCache without line 103.
UpdateCacheKeepPrevious(cache, live_data, now) ==
    [data |-> live_data, last_refreshed |-> Some(now),
     previous_data |-> cache.previous_data]

\* Lines 103-105.
UpdateCache(cache, live_data, now) ==
    [data |-> live_data, last_refreshed |-> Some(now),
     previous_data |-> cache.data]

Returned(data, ts, now, gets) ==
    [outcome |-> "returned", error |-> "", data |-> data, ts |-> ts,
     now |-> now, gets |-> gets]

Raised(error, now, gets) ==
    [outcome |-> "raised", error |-> error, data |-> << >>, ts |-> None,
     now |-> now, gets |-> gets]

Idle ==
    [outcome |-> "idle", error |-> "", data |-> << >>, ts |-> None,
     now |-> 0, gets |-> <<0, 0>>]

\* Lines 77-78: both URLs are requested, whatever the first one yields.
Gets(vehicle_response, trip_response) == <<1, 1>>

\* Lines 68-107.  The result holds the cache after the call, what went over
\* the wire, what the caller got, and whether lines 102-107 ran.
get_live_bus_data(cache, now, vehicle_response, trip_response) ==
    IF IsFresh(cache, now)
    THEN [cache |-> cache, refreshed |-> FALSE,
          wire |-> [vehicle |-> NotRequested, trip |-> NotRequested],
          ret |-> Returned(cache.data, cache.last_refreshed, now, <<0, 0>>)]
    ELSE
    LET vehicle_content == fetch_gtfs_rt(vehicle_response)
        trip_content == fetch_gtfs_rt(trip_response)
        gets == Gets(vehicle_response, trip_response)
        sent == [vehicle |-> vehicle_response, trip |-> trip_response]
        stale == [cache |-> cache, refreshed |-> FALSE, wire |-> sent,
                  ret |-> Returned(cache.data, LastRefreshedOr(cache, now), now, gets)]
        raise(e) == [cache |-> cache, refreshed |-> FALSE, wire |-> sent,
                     ret |-> Raised(e, now, gets)]
    IN  IF Falsy(vehicle_content) \/ Falsy(trip_content) THEN stale
        ELSE IF ~Decodes(vehicle_content) THEN raise("DecodeError")
        ELSE IF ~Decodes(trip_content) THEN raise("DecodeError")
        ELSE
        LET vehicles_df == parse_vehicle_positions(vehicle_content)
            updates_df == parse_trip_updates(trip_content)
        IN  IF vehicles_df = << >> THEN stale
            \* An empty updates frame has no trip_id column to merge on.
            ELSE IF updates_df = << >> THEN raise("KeyError")
            ELSE
            LET live_data == LiveData(vehicles_df, updates_df)
            IN  [cache |-> UpdateCache(cache, live_data, now), refreshed |-> TRUE,
                 wire |-> sent,
                 ret |-> Returned(live_data, Some(now), now, gets)]

\* ------------------------------------------------------------ the index page

NoPage == [status |-> 0]

\* request.args: each of region, route and vehicle is absent or given once;
\* status is the list getlist yields.
Requests ==
    [region : {None, Some("All"), Some("Brisbane")},
     route : {None, Some(RouteAll)},
     status : {<< >>, <<"Delayed">>, <<"On Time", "Early">>},
     vehicle : {None, Some("A")}]

Range(list) == {list[i] : i \in 1..Len(list)}

\* sorted(df["status"].unique().tolist()): the statuses are the three that
\* line 64 and line 92 produce, in Python's string order.
StatusOptions(df) ==
    SelectSeq(<<"Delayed", "Early", "On Time">>,
              LAMBDA s : \E i \in 1..Len(df) : df[i].status = s)

\* Lines 120-123: the filters of the request, defaults applied.
SelectedFilters(args) ==
    [region |-> IF args.region = None THEN "Gold Coast" ELSE args.region[1],
     route |-> IF args.route = None THEN Route700 ELSE args.route[1],
     status |-> args.status,
     vehicle |-> IF args.vehicle = None THEN "All" ELSE args.vehicle[1]]

\* Lines 130 and 133: the frame the status options are taken from.
StatusFrame(master_df, selected) ==
    LET df_for_route_options ==
            IF selected.region # "All"
            THEN SelectSeq(master_df, LAMBDA r : r.region = selected.region)
            ELSE master_df
    IN  IF selected.route # RouteAll
        THEN SelectSeq(df_for_route_options, LAMBDA r : r.route_name = selected.route)
        ELSE df_for_route_options

\* Lines 137-138: an empty status selection becomes every available status.
SelectedStatus(master_df, selected) ==
    IF selected.status = << >>
    THEN StatusOptions(StatusFrame(master_df, selected))
    ELSE selected.status

\* Variant of FilterChain without the region filter of line 130.
FilterChainAnyRegion(master_df, selected) ==
    LET df_for_status_options == StatusFrame(master_df, [selected EXCEPT !.region = "All"])
        selected_status == SelectedStatus(master_df, selected)
        df_for_vehicle_options ==
            SelectSeq(df_for_status_options, LAMBDA r : r.status \in Range(selected_status))
    IN  IF selected.vehicle # "All"
        THEN SelectSeq(df_for_vehicle_options, LAMBDA r : r.vehicle_id = selected.vehicle)
        ELSE df_for_vehicle_options

\* Lines 127-146: filtered_df before the merge with the previous locations.
FilterChain(master_df, selected) ==
    LET df_for_status_options == StatusFrame(master_df, selected)
        selected_status == SelectedStatus(master_df, selected)
        df_for_vehicle_options ==
            SelectSeq(df_for_status_options, LAMBDA r : r.status \in Range(selected_status))
    IN  IF selected.vehicle # "All"
        THEN SelectSeq(df_for_vehicle_options, LAMBDA r : r.vehicle_id = selected.vehicle)
        ELSE df_for_vehicle_options

\* The rows the left merge on vehicle_id makes of row i of filtered_df; "of"
\* remembers i.
PreviousRows(filtered_df, i, previous_df) ==
    LET m == SelectSeq(previous_df, LAMBDA p : p.vehicle_id = filtered_df[i].vehicle_id)
    IN  IF m = << >>
        THEN << [row |-> filtered_df[i], lat_prev |-> None, lon_prev |-> None, of |-> i] >>
        ELSE [j \in 1..Len(m) |->
                [row |-> filtered_df[i], lat_prev |-> Some(m[j].lat),
                 lon_prev |-> Some(m[j].lon), of |-> i]]

RECURSIVE MergeFrom(_, _, _)
MergeFrom(filtered_df, i, previous_df) ==
    IF i > Len(filtered_df) THEN << >>
    ELSE PreviousRows(filtered_df, i, previous_df) \o MergeFrom(filtered_df, i + 1, previous_df)

\* Lines 149-155: filtered_df with the columns lat_prev and lon_prev.
MergePrevious(filtered_df, previous_df) ==
    IF previous_df # << >>
    THEN MergeFrom(filtered_df, 1, previous_df)
    ELSE [i \in 1..Len(filtered_df) |->
            [row |-> filtered_df[i], lat_prev |-> None, lon_prev |-> None, of |-> i]]

\* Line 162: a previous position is known and differs from the current one.
Moved(r) ==
    /\ r.lat_prev # None
    /\ (r.row.lat # r.lat_prev[1] \/ r.row.lon # r.lon_prev[1])

\* Lines 161-163: one AntPath per moved row, in row order.
Segments(rows) ==
    LET moved == SelectSeq(rows, Moved)
    IN  [k \in 1..Len(moved) |->
            [from |-> <<moved[k].lat_prev[1], moved[k].lon_prev[1]>>,
             to |-> <<moved[k].row.lat, moved[k].row.lon>>,
             of |-> moved[k].of]]

\* Lines 118-197 on a non-empty snapshot.  The option lists other than the
\* status options and the HTML are rendering and are left out.
Render(master_df, previous_df, args) ==
    LET selected == SelectedFilters(args)
        filtered_df == FilterChain(master_df, selected)
        rows == MergePrevious(filtered_df, previous_df)
    IN  [status |-> 200, args |-> args,
         selected_filters |-> [selected EXCEPT !.status = SelectedStatus(master_df, selected)],
         filtered |-> filtered_df, rows |-> rows, segments |-> Segments(rows),
         tracked_buses_count |-> Len(rows)]

NoProbe == [kind |-> "none", x |-> 0, y |-> 0]

\* --------------------------------------------------------------- behaviour

Init ==
    /\ CACHE = EmptyCache
    /\ clock = 0
    /\ wire = [vehicle |-> NotRequested, trip |-> NotRequested]
    /\ ret = Idle
    /\ refreshes = << >>
    /\ page = NoPage
    /\ probe = NoProbe
    /\ probed = None
    /\ pc = << >>
    /\ frame = << >>

\* Wall-clock time passes between requests.
Tick(d) ==
    /\ clock + d <= MaxClock
    /\ clock' = clock + d
    /\ UNCHANGED <<CACHE, wire, ret, refreshes, page, probe, probed, pc, frame>>

\* One call of get_live_bus_data, start to finish.
GetLiveBusData(vehicle_response, trip_response) ==
    \E r \in {get_live_bus_data(CACHE, clock, vehicle_response, trip_response)} :
        /\ CACHE' = r.cache
        /\ wire' = r.wire
        /\ ret' = r.ret
        /\ refreshes' = IF r.refreshed
                         THEN Append(refreshes, [data |-> r.ret.data, at |-> clock])
                         ELSE refreshes
        /\ UNCHANGED <<clock, page, probe, probed, pc, frame>>

\* One request of the index page: lines 111-197, the call of
\* get_live_bus_data included.  An exception of that call ends the request.
Index(args, vehicle_response, trip_response) ==
    \E r \in {get_live_bus_data(CACHE, clock, vehicle_response, trip_response)} :
        /\ CACHE' = r.cache
        /\ wire' = r.wire
        /\ ret' = r.ret
        /\ refreshes' = IF r.refreshed
                         THEN Append(refreshes, [data |-> r.ret.data, at |-> clock])
                         ELSE refreshes
        /\ page' = IF r.ret.outcome = "raised" THEN [status |-> 500]
                    ELSE IF r.ret.data = << >> THEN [status |-> 503]
                    ELSE Render(r.ret.data, r.cache.previous_data, args)
        /\ UNCHANGED <<clock, probe, probed, pc, frame>>

Next ==
    \/ \E d \in {59, 60} : Tick(d)
    \/ \E v \in VehicleResponses, t \in TripResponses : GetLiveBusData(v, t)

Spec == Init /\ [][Next]_vars

\* The responses the page requests are served: a failure, a malformed body
\* and the feeds that decode to vehicles and to trip updates.
PageVehicleResponses == {r \in VehicleResponses : r = HttpError \/ DecodedVehicles(r) # << >>}

PageTripResponses ==
    {r \in TripResponses : r = Malformed \/ Len(DecodedUpdates(r)) > 1}

NextIndex ==
    \/ Tick(60)
    \/ \E a \in Requests, v \in PageVehicleResponses, t \in PageTripResponses :
            Index(a, v, t)

SpecIndex == Init /\ [][NextIndex]_vars

\* ------------------------------------------- the two classifications alone

\* A delay probe is a trip update whose first stop-time update has delay x and
\* whose second has delay y; a latitude probe is a vehicle at latitude x and
\* longitude y.
DelayProbes == [kind : {"delay"}, x : (-MaxDelay)..MaxDelay, y : {-400, 400}]

LatProbes == [kind : {"lat"}, x : (-LatSouth)..(-LatNorth), y : {0, 15340}]

InitClassify ==
    /\ CACHE = EmptyCache
    /\ clock = 0
    /\ wire = [vehicle |-> NotRequested, trip |-> NotRequested]
    /\ ret = Idle
    /\ refreshes = << >>
    /\ page = NoPage
    /\ probe \in DelayProbes \cup LatProbes
    /\ probed = None
    /\ pc = << >>
    /\ frame = << >>

\* parse_trip_updates on a feed holding the probe as its only trip update.
ParseTripUpdate ==
    /\ probe.kind = "delay"
    /\ probed = None
    /\ LET content == Feed(<<TripUpdateEntity("t1", <<probe.x, probe.y>>)>>)
       IN  probed' = Some(parse_trip_updates(content)[1].status)
    /\ UNCHANGED <<CACHE, clock, wire, ret, refreshes, page, probe, pc, frame>>

\* The merge and derivation of lines 90-100 on the probe as the only vehicle.
CategorizeRegion ==
    /\ probe.kind = "lat"
    /\ probed = None
    /\ LET vehicles_df == parse_vehicle_positions(
               Feed(<<VehicleEntity("t1", Route700, "A", probe.x, probe.y, 1)>>))
           updates_df == parse_trip_updates(Feed(<<TripUpdateEntity("t1", <<0>>)>>))
       IN  probed' = Some(LiveData(vehicles_df, updates_df)[1].region)
    /\ UNCHANGED <<CACHE, clock, wire, ret, refreshes, page, probe, pc, frame>>

NextClassify == ParseTripUpdate \/ CategorizeRegion

SpecClassify == InitClassify /\ [][NextClassify]_vars

\* --------------------------------------------- two requests at the same time

\* Two request threads run get_live_bus_data on the one CACHE with no lock.
\* A step is at most one read or one write of a CACHE entry; what a thread
\* does between two such accesses touches only its own locals and is part of
\* the step before.  pc[t] is the thread's place, frame[t] its locals and the
\* value its last call returned.
Threads == {1, 2}

NewFrame == [now |-> 0, data |-> << >>, live_data |-> << >>, calls |-> 0, ret |-> Idle]

\* The responses served to the two threads.
RaceVehicleResponses == {r \in VehicleResponses : r = HttpError \/ DecodedVehicles(r) # << >>}

RaceTripResponses == {r \in TripResponses : Len(DecodedUpdates(r)) = 1}

InitRace ==
    /\ CACHE = EmptyCache
    /\ clock = 0
    /\ wire = [vehicle |-> NotRequested, trip |-> NotRequested]
    /\ ret = Idle
    /\ refreshes = << >>
    /\ page = NoPage
    /\ probe = NoProbe
    /\ probed = None
    /\ pc = [t \in Threads |-> "idle"]
    /\ frame = [t \in Threads |-> NewFrame]

Goto(t, label) == pc' = [pc EXCEPT ![t] = label]

\* Line 70: now = datetime.now(BRISBANE_TZ).
Enter(t) ==
    /\ pc[t] = "idle"
    /\ frame[t].calls < MaxCalls
    /\ frame' = [frame EXCEPT ![t].now = clock, ![t].calls = @ + 1]
    /\ Goto(t, "line73")
    /\ UNCHANGED <<CACHE, clock, wire, ret, refreshes, page, probe, probed>>

\* Line 73, left operand of "and": the truth value of CACHE["last_refreshed"].
TestRefreshed(t) ==
    /\ pc[t] = "line73"
    /\ Goto(t, IF CACHE.last_refreshed # None THEN "line73_age" ELSE "line77")
    /\ UNCHANGED <<CACHE, clock, wire, ret, refreshes, page, probe, probed, frame>>

\* Line 73, right operand: CACHE["last_refreshed"] read again and compared.
TestAge(t) ==
    /\ pc[t] = "line73_age"
    /\ Goto(t, IF IsFresh(CACHE, frame[t].now) THEN "line74" ELSE "line77")
    /\ UNCHANGED <<CACHE, clock, wire, ret, refreshes, page, probe, probed, frame>>

\* Lines 74, 82 and 88: the first element of the returned tuple, CACHE["data"].
ReadData(t) ==
    /\ pc[t] \in {"line74", "line82"}
    /\ frame' = [frame EXCEPT ![t].data = CACHE.data]
    /\ Goto(t, IF pc[t] = "line74" THEN "line74_ts" ELSE "line82_ts")
    /\ UNCHANGED <<CACHE, clock, wire, ret, refreshes, page, probe, probed>>

\* Line 74: the second element, CACHE["last_refreshed"], and the return.
ReturnHit(t) ==
    /\ pc[t] = "line74_ts"
    /\ frame' = [frame EXCEPT ![t].ret =
                    Returned(frame[t].data, CACHE.last_refreshed, frame[t].now, <<0, 0>>)]
    /\ Goto(t, "idle")
    /\ UNCHANGED <<CACHE, clock, wire, ret, refreshes, page, probe, probed>>

\* Lines 82 and 88: CACHE.get("last_refreshed") or now, and the return.
ReturnStale(t) ==
    /\ pc[t] = "line82_ts"
    /\ frame' = [frame EXCEPT ![t].ret =
                    Returned(frame[t].data, LastRefreshedOr(CACHE, frame[t].now),
                             frame[t].now, <<1, 1>>)]
    /\ Goto(t, "idle")
    /\ UNCHANGED <<CACHE, clock, wire, ret, refreshes, page, probe, probed>>

\* Lines 77-100: both fetches, both parses and the merge, on the served
\* responses (which decode whenever they are fetched).
FetchAndMerge(t, vehicle_response, trip_response) ==
    /\ pc[t] = "line77"
    /\ LET vehicle_content == fetch_gtfs_rt(vehicle_response)
           trip_content == fetch_gtfs_rt(trip_response)
       IN  IF Falsy(vehicle_content) \/ Falsy(trip_content)
           THEN /\ Goto(t, "line82")
                /\ UNCHANGED frame
           ELSE /\ frame' = [frame EXCEPT ![t].live_data =
                                LiveData(parse_vehicle_positions(vehicle_content),
                                         parse_trip_updates(trip_content))]
                /\ Goto(t, "line103")
    /\ UNCHANGED <<CACHE, clock, wire, ret, refreshes, page, probe, probed>>

\* Line 103, right-hand side: CACHE["data"].copy().
CopyData(t) ==
    /\ pc[t] = "line103"
    /\ frame' = [frame EXCEPT ![t].data = CACHE.data]
    /\ Goto(t, "line103_store")
    /\ UNCHANGED <<CACHE, clock, wire, ret, refreshes, page, probe, probed>>

\* Line 103, the store into CACHE["previous_data"].
StorePrevious(t) ==
    /\ pc[t] = "line103_store"
    /\ CACHE' = [CACHE EXCEPT !.previous_data = frame[t].data]
    /\ Goto(t, "line104")
    /\ UNCHANGED <<clock, wire, ret, refreshes, page, probe, probed, frame>>

\* Line 104.  The refresh is recorded with the timestamp it will store.
StoreData(t) ==
    /\ pc[t] = "line104"
    /\ CACHE' = [CACHE EXCEPT !.data = frame[t].live_data]
    /\ refreshes' = Append(refreshes, [data |-> frame[t].live_data, at |-> frame[t].now])
    /\ Goto(t, "line105")
    /\ UNCHANGED <<clock, wire, ret, page, probe, probed, frame>>

\* Lines 105-107.
StoreLastRefreshed(t) ==
    /\ pc[t] = "line105"
    /\ CACHE' = [CACHE EXCEPT !.last_refreshed = Some(frame[t].now)]
    /\ frame' = [frame EXCEPT ![t].ret =
                    Returned(frame[t].live_data, Some(frame[t].now), frame[t].now, <<1, 1>>)]
    /\ Goto(t, "idle")
    /\ UNCHANGED <<clock, wire, ret, refreshes, page, probe, probed>>

NextRace ==
    \/ \E d \in {59, 60} : Tick(d)
    \/ \E t \in Threads :
          \/ Enter(t)
          \/ TestRefreshed(t)
          \/ TestAge(t)
          \/ ReadData(t)
          \/ ReturnHit(t)
          \/ ReturnStale(t)
          \/ \E v \in RaceVehicleResponses, r \in RaceTripResponses : FetchAndMerge(t, v, r)
          \/ CopyData(t)
          \/ StorePrevious(t)
          \/ StoreData(t)
          \/ StoreLastRefreshed(t)

SpecRace == InitRace /\ [][NextRace]_vars

\* ------------------------------------------------ claims on the refresh cache

\* A call of get_live_bus_data has just finished.
Called == <<ret, wire>>' # <<ret, wire>>

LastRefresh == refreshes[Len(refreshes)]

C1_Step ==
    (Called /\ refreshes # << >>) =>
        IF clock - LastRefresh.at < 60
        THEN /\ ret'.gets = <<0, 0>>
             /\ wire'.vehicle = NotRequested /\ wire'.trip = NotRequested
             /\ ret'.outcome = "returned"
             /\ ret'.data = LastRefresh.data
             /\ ret'.ts = Some(LastRefresh.at)
        ELSE /\ ret'.gets = <<1, 1>>
             /\ wire'.vehicle # NotRequested /\ wire'.trip # NotRequested

\* C1: once a refresh has succeeded at time T, a call at a time t with
\* t - T < 60 requests neither feed and returns the snapshot and the timestamp
\* of that refresh; a call with t - T >= 60 requests each feed URL exactly once.
C1_CacheFreshness == [][C1_Step]_vars

\* A cache hit 59 seconds after a refresh.
C1_Witness ==
    /\ refreshes # << >>
    /\ ret.now - LastRefresh.at = 59
    /\ ret.gets = <<0, 0>>
    /\ ret.data # << >>

C2_Step ==
    (/\ Called
     /\ wire'.vehicle # NotRequested
     /\ \/ wire'.vehicle = HttpError
        \/ wire'.trip = HttpError
        \/ (Decodes(wire'.vehicle) /\ DecodedVehicles(wire'.vehicle) = << >>))
    => /\ CACHE' = CACHE
       /\ ret'.outcome = "returned"
       /\ ret'.data = CACHE.data
       /\ ret'.ts = IF refreshes # << >> THEN Some(LastRefresh.at) ELSE Some(clock)

\* C2: a refresh attempt in which either fetch fails or the decoded vehicle
\* set is empty leaves the cache as it was and returns the cached snapshot with
\* the last successful refresh time, or with the current time if there is none.
C2_FailedRefreshServesCache == [][C2_Step]_vars

\* C3: get_live_bus_data never raises to its caller, whatever the two feeds
\* yield, a fetched payload that does not decode included.
C3_NeverRaises == ret.outcome # "raised"

\* C4: after k >= 1 successful refreshes the current snapshot is the k-th
\* merged snapshot, the previous snapshot is the (k-1)-th (empty when k = 1)
\* and last_refreshed is the time of the k-th; hits and failures change none.
C4_OneCycleBehind ==
    LET k == Len(refreshes)
    IN  IF k = 0 THEN CACHE = EmptyCache
        ELSE /\ CACHE.data = refreshes[k].data
             /\ CACHE.previous_data = (IF k = 1 THEN << >> ELSE refreshes[k - 1].data)
             /\ CACHE.last_refreshed = Some(refreshes[k].at)

\* Two refreshes with different snapshots, then a call that raised or failed.
C4_Witness ==
    /\ Len(refreshes) >= 2
    /\ refreshes[Len(refreshes)].data # refreshes[Len(refreshes) - 1].data
    /\ ret.gets = <<1, 1>>
    /\ ret.data # CACHE.data

\* The vehicle columns of a snapshot row.
VehicleColumns(row) ==
    [trip_id |-> row.trip_id, route_id |-> row.route_id,
     vehicle_id |-> row.vehicle_id, lat |-> row.lat, lon |-> row.lon,
     stop_sequence |-> row.stop_sequence]

\* C5: for every decoded vehicle list and trip-update list, the refresh
\* succeeds with a snapshot holding each vehicle record exactly once; without a
\* trip update of its trip_id a vehicle gets delay 0 and status On Time, with
\* one it gets that record's delay and status.
C5_LeftJoinOncePerVehicle ==
    (/\ Decodes(wire.vehicle) /\ Decodes(wire.trip)
     /\ DecodedVehicles(wire.vehicle) # << >>)
    => LET V == DecodedVehicles(wire.vehicle)
           U == parse_trip_updates(wire.trip)
           matches(v) == {j \in 1..Len(U) : U[j].trip_id = v.trip_id}
       IN  /\ ret.outcome = "returned"
           /\ Len(ret.data) = Len(V)
           /\ \A i \in 1..Len(V) :
                /\ VehicleColumns(ret.data[i]) = V[i]
                /\ IF matches(V[i]) = {}
                   THEN ret.data[i].delay = 0 /\ ret.data[i].status = "On Time"
                   ELSE \E j \in matches(V[i]) :
                            /\ ret.data[i].delay = U[j].delay
                            /\ ret.data[i].status = U[j].status

\* ------------------------------------------- claims on the classifications

\* C6: the status derived from the first stop-time update's delay d is
\* Delayed iff d > 300, Early iff d < -60 and On Time otherwise; 300 and -60
\* both give On Time.
C6_StatusOfDelay ==
    (probe.kind = "delay" /\ probed # None) =>
        LET d == probe.x
            status == probed[1]
        IN  /\ (status = "Delayed") <=> (d > 300)
            /\ (status = "Early") <=> (d < -60)
            /\ (status = "On Time") <=> (-60 <= d /\ d <= 300)
            /\ status \in {"Delayed", "Early", "On Time"}

\* The boundary delay 300 has been classified.
C6_Witness == probe.kind = "delay" /\ probe.x = 300 /\ probed = Some("On Time")

\* The declared buckets, in hundredths of a degree.
Buckets ==
    << [region |-> "Brisbane", lo |-> -2775, hi |-> -2700],
       [region |-> "Gold Coast", lo |-> -2820, hi |-> -2778],
       [region |-> "Sunshine Coast", lo |-> -2690, hi |-> -2630] >>

\* C7: the region of a latitude is that of the first declared bucket whose
\* closed range holds it, Other when none does, whatever the longitude;
\* -27.75 gives Brisbane and -27.78 gives Gold Coast.
C7_RegionOfLatitude ==
    (probe.kind = "lat" /\ probed # None) =>
        LET lat == probe.x
            holding == {i \in 1..Len(Buckets) : Buckets[i].lo <= lat /\ lat <= Buckets[i].hi}
            first == CHOOSE i \in holding : \A j \in holding : i <= j
        IN  /\ probed[1] = (IF holding = {} THEN "Other" ELSE Buckets[first].region)
            /\ (lat = -2775) => (probed[1] = "Brisbane")
            /\ (lat = -2778) => (probed[1] = "Gold Coast")

\* The boundary latitude -27.78 has been classified.
C7_Witness == probe.kind = "lat" /\ probe.x = -2778 /\ probed = Some("Gold Coast")

\* ------------------------------------------------- claims on the index page

\* C8: the rows rendered from a non-empty snapshot are exactly the snapshot
\* rows whose region is the selected region (any when All), whose route_name
\* is the selected route (any when All), whose status is in the selected list
\* (when the list is empty: any status among the rows of the selected region
\* and route) and whose vehicle_id is the selected vehicle (any when All).
C8_RenderedRowsAreTheFilteredRows ==
    (page.status = 200) =>
        LET master == ret.data
            region == IF page.args.region = None THEN "Gold Coast" ELSE page.args.region[1]
            route == IF page.args.route = None THEN Route700 ELSE page.args.route[1]
            vehicle == IF page.args.vehicle = None THEN "All" ELSE page.args.vehicle[1]
            InScope(r) == /\ (region = "All" \/ r.region = region)
                          /\ (route = RouteAll \/ r.route_name = route)
            Keep(r) == /\ InScope(r)
                       /\ IF page.args.status = << >>
                          THEN \E i \in 1..Len(master) :
                                   InScope(master[i]) /\ master[i].status = r.status
                          ELSE r.status \in Range(page.args.status)
                       /\ (vehicle = "All" \/ r.vehicle_id = vehicle)
        IN  /\ page.filtered = SelectSeq(master, Keep)
            /\ {page.rows[i].row : i \in 1..Len(page.rows)}
                   = {master[i] : i \in {j \in 1..Len(master) : Keep(master[j])}}
            /\ (region = "Gold Coast") =>
                   \A i \in 1..Len(page.rows) :
                       page.rows[i].row.lat >= -2820 /\ page.rows[i].row.lat <= -2778

\* The default request (region Gold Coast, route 700) on a snapshot that also
\* holds a Brisbane vehicle renders some rows and leaves some out.
C8_Witness ==
    /\ page.status = 200
    /\ page.args.region = None /\ page.args.route = None
    /\ \E i \in 1..Len(ret.data) : ret.data[i].region = "Brisbane"
    /\ page.rows # << >>

\* C9: for every row of the filtered view, a previous snapshot holding its
\* vehicle_id at the same position gives no path segment, one holding it at a
\* different position gives exactly one segment from there to the current
\* position, and an empty previous snapshot or one without the vehicle_id
\* gives none.
C9_OneSegmentPerMovedVehicle ==
    (page.status = 200) =>
        \A i \in 1..Len(page.filtered) :
            LET r == page.filtered[i]
                prev == CACHE.previous_data
                known == {j \in 1..Len(prev) : prev[j].vehicle_id = r.vehicle_id}
                same == {j \in known : prev[j].lat = r.lat /\ prev[j].lon = r.lon}
                segs == {k \in 1..Len(page.segments) : page.segments[k].of = i}
            IN  /\ (same # {}) => (segs = {})
                /\ (known \ same # {}) =>
                       /\ Cardinality(segs) = 1
                       /\ \A k \in segs :
                              /\ page.segments[k].to = <<r.lat, r.lon>>
                              /\ \E j \in known \ same :
                                     page.segments[k].from = <<prev[j].lat, prev[j].lon>>
                /\ (known = {}) => (segs = {})

\* ------------------------------------------------ claims on concurrent calls

\* C10: under every interleaving of two concurrent calls, a call returns a
\* snapshot with the timestamp of the refresh that produced that snapshot (or,
\* before any refresh, the empty snapshot with the current time): never a
\* snapshot paired with the timestamp of a different refresh.
C10_SnapshotPairedWithItsRefresh ==
    \A t \in DOMAIN frame :
        LET r == frame[t].ret
        IN  (r.outcome = "returned") =>
                \/ \E k \in 1..Len(refreshes) :
                       refreshes[k] = [data |-> r.data, at |-> r.ts[1]]
                \/ r.data = << >> /\ r.ts = Some(r.now)

====
